---- MODULE Spec2Model ----
(***************************************************************************)
(* Model of automate_presentation.py: load and clean a CSV, render seven   *)
(* charts into img/slides, build a slide deck from the directory's files   *)
(* and save it twice (plain, themed).                                      *)
(*                                                                         *)
(* Text is modelled as follows.  A text the code takes apart character by  *)
(* character (the duration field) is a sequence of one-character strings;  *)
(* a text it splits at separators is a sequence of tokens; other texts are *)
(* TLA+ strings.  An empty CSV field is what read_csv reads as NaN, so the *)
(* missing value of a text field is the empty text.  The float NaN of the  *)
(* derived numeric columns is NaN (a value no extraction produces).        *)
(***************************************************************************)
EXTENDS Integers, Sequences, FiniteSets, TLC

VARIABLES pc, csv, df, log, exitCode, call, ret, figs, dirExists, imgdir,
          chartIdx, prs, todo, pptxFiles

vars == <<pc, csv, df, log, exitCode, call, ret, figs, dirExists, imgdir,
          chartIdx, prs, todo, pptxFiles>>

\* ------------------------------------------------------------------ bounds
MaxRows == 2
MaxLen == 2
MaxSlides == 3

\* --------------------------------------------------------------- constants
NaN == 0 - 1
Running == 0 - 1
NoCall == [fn |-> "none"]

DARK_BLUE == <<0, 32, 96>>
LIGHT_BLUE == <<197, 217, 241>>
BLACK == <<0, 0, 0>>

Digits == {"1", "2"}
Chars == Digits \cup {"m"}

\* ------------------------------------------------------- load_and_clean_data
RECURSIVE TextsUpTo(_)
TextsUpTo(n) ==
    IF n = 0 THEN {<<>>}
    ELSE LET S == TextsUpTo(n - 1)
         IN S \cup {Append(s, c) : s \in {t \in S : Len(t) = n - 1}, c \in Chars}

DurationTexts == TextsUpTo(MaxLen)
Listings == {<<>>, <<"Dramas">>, <<"Dramas", ",", " Comedies">>}
Dates == {"", "September 25, 2021", "2019-01-01"}

\* a complete row
BaseRow == [type |-> "Movie", duration |-> <<"1", "m">>,
            listed_in |-> <<"Dramas", ",", " Comedies">>,
            date_added |-> "September 25, 2021", country |-> "India"]

\* the rows of the input tables: a Movie with every duration text, the other
\* types (and a missing type) with some duration texts, and the complete row
\* with one of its other fields varied
Rows ==
    {[BaseRow EXCEPT !.duration = d] : d \in DurationTexts}
    \cup {[BaseRow EXCEPT !.type = t, !.duration = d] :
             t \in {"TV Show", ""}, d \in {<<>>, <<"2">>, <<"m">>}}
    \cup {[BaseRow EXCEPT !.listed_in = l] : l \in Listings}
    \cup {[BaseRow EXCEPT !.date_added = a] : a \in Dates}
    \cup {[BaseRow EXCEPT !.country = c] : c \in {"", "India"}}

RECURSIVE TablesUpTo(_)
TablesUpTo(n) ==
    IF n = 0 THEN {<<>>}
    ELSE LET S == TablesUpTo(n - 1)
         IN S \cup {Append(s, r) : s \in {t \in S : Len(t) = n - 1}, r \in Rows}

\* pd.isna on each original column
IsMissingRow(r) ==
    \/ r.type = ""
    \/ r.duration = <<>>
    \/ r.listed_in = <<>>
    \/ r.date_added = ""
    \/ r.country = ""

\* dropna restricted to one column
DropNa_TypeOnly(t) == SelectSeq(t, LAMBDA r : r.type # "")

\* df.dropna(inplace=True)
DropNa(t) == SelectSeq(t, LAMBDA r : ~IsMissingRow(r))

IsNumericText(s) == s # <<>> /\ \A i \in 1..Len(s) : s[i] \in Digits

\* read_csv gives a column the object (text) dtype when the table has no row
\* or some field of the column is a non-numeric text; a column of numbers
\* and/or empty fields becomes int64/float64, on which .str raises
DurationIsTextColumn(t) ==
    t = <<>> \/ \E i \in 1..Len(t) : t[i].duration # <<>> /\ ~IsNumericText(t[i].duration)

ListedInIsTextColumn(t) ==
    t = <<>> \/ \E i \in 1..Len(t) : t[i].listed_in # <<>>

DigitValue(c) == IF c = "1" THEN 1 ELSE 2

RECURSIVE DigitsValue(_)
DigitsValue(s) ==
    IF s = <<>> THEN 0
    ELSE 10 * DigitsValue(SubSeq(s, 1, Len(s) - 1)) + DigitValue(s[Len(s)])

\* the digit run starting at position i, as long as the regex \d+ takes it
RECURSIVE RunEnd(_, _)
RunEnd(s, i) == IF i < Len(s) /\ s[i + 1] \in Digits THEN RunEnd(s, i + 1) ELSE i

\* the regex without its +: one digit
Extract_OneDigit(s) ==
    LET starts == {i \in 1..Len(s) : s[i] \in Digits}
    IN IF starts = {} THEN NaN
       ELSE DigitValue(s[CHOOSE i \in starts : \A j \in starts : i <= j])

\* Series.str.extract('(\d+)').astype(float): the leftmost, longest run of digits
Extract(s) ==
    LET starts == {i \in 1..Len(s) : s[i] \in Digits}
    IN IF starts = {} THEN NaN
       ELSE LET b == CHOOSE i \in starts : \A j \in starts : i <= j
            IN DigitsValue(SubSeq(s, b, RunEnd(s, b)))

\* df['duration_min'] = df[df['type'] == 'Movie']['duration'].str.extract(...):
\* computed on the Movie rows, aligned on the index by the assignment
DeriveDuration(t) ==
    LET movies == {i \in 1..Len(t) : t[i].type = "Movie"}
        extracted == [i \in movies |-> Extract(t[i].duration)]
    IN [i \in 1..Len(t) |->
          [type |-> t[i].type, duration |-> t[i].duration, listed_in |-> t[i].listed_in,
           date_added |-> t[i].date_added, country |-> t[i].country,
           duration_min |-> IF i \in movies THEN extracted[i] ELSE NaN]]

\* .str.split(',').str[0]
RECURSIVE FirstToken(_)
FirstToken(l) ==
    IF l = <<>> \/ Head(l) = "," THEN <<>> ELSE <<Head(l)>> \o FirstToken(Tail(l))

DeriveGenre(t) ==
    [i \in 1..Len(t) |->
          [type |-> t[i].type, duration |-> t[i].duration, listed_in |-> t[i].listed_in,
           date_added |-> t[i].date_added, country |-> t[i].country,
           duration_min |-> t[i].duration_min, genre |-> FirstToken(t[i].listed_in)]]

\* pd.to_datetime(..., format='mixed').dt.year
ParseYear(d) ==
    IF d = "September 25, 2021" THEN 2021 ELSE IF d = "2019-01-01" THEN 2019 ELSE NaN

DeriveYear(t) ==
    [i \in 1..Len(t) |->
          [type |-> t[i].type, duration |-> t[i].duration, listed_in |-> t[i].listed_in,
           date_added |-> t[i].date_added, country |-> t[i].country,
           duration_min |-> t[i].duration_min, genre |-> t[i].genre,
           year_added |-> ParseYear(t[i].date_added)]]

\* an uncaught exception ends the process (interpreter exit status 1)
Crash ==
    /\ pc' = "crashed"
    /\ exitCode' = 1

\* LoadRead without the sys.exit(1) of the handler: the function returns
LoadRead_NoExit ==
    /\ pc = "load_read"
    /\ IF ~csv.exists
       THEN /\ log' = Append(log, "Error loading data")
            /\ pc' = ret
            /\ UNCHANGED <<df, exitCode>>
       ELSE /\ df' = csv.rows
            /\ pc' = "load_dropna"
            /\ UNCHANGED <<log, exitCode>>
    /\ UNCHANGED <<csv, call, ret, figs, dirExists, imgdir, chartIdx, prs, todo, pptxFiles>>


LoadRead ==
    /\ pc = "load_read"
    /\ IF ~csv.exists
       THEN /\ log' = Append(log, "Error loading data")
            /\ pc' = "exited"
            /\ exitCode' = 1
            /\ df' = df
       ELSE /\ df' = csv.rows
            /\ pc' = "load_dropna"
            /\ UNCHANGED <<log, exitCode>>
    /\ UNCHANGED <<csv, call, ret, figs, dirExists, imgdir, chartIdx, prs, todo, pptxFiles>>

LoadDropna ==
    /\ pc = "load_dropna"
    /\ df' = DropNa(df)
    /\ pc' = "load_duration"
    /\ UNCHANGED <<csv, log, exitCode, call, ret, figs, dirExists, imgdir, chartIdx, prs,
                   todo, pptxFiles>>

LoadDuration ==
    /\ pc = "load_duration"
    /\ IF DurationIsTextColumn(csv.rows)
       THEN /\ df' = DeriveDuration(df)
            /\ pc' = "load_genre"
            /\ exitCode' = exitCode
       ELSE /\ Crash
            /\ df' = df
    /\ UNCHANGED <<csv, log, call, ret, figs, dirExists, imgdir, chartIdx, prs, todo,
                   pptxFiles>>

LoadGenre ==
    /\ pc = "load_genre"
    /\ IF ListedInIsTextColumn(csv.rows)
       THEN /\ df' = DeriveGenre(df)
            /\ pc' = "load_year"
            /\ exitCode' = exitCode
       ELSE /\ Crash
            /\ df' = df
    /\ UNCHANGED <<csv, log, call, ret, figs, dirExists, imgdir, chartIdx, prs, todo,
                   pptxFiles>>

LoadYear ==
    /\ pc = "load_year"
    /\ df' = DeriveYear(df)
    /\ log' = Append(log, "Data loaded and cleaned successfully.")
    /\ pc' = ret
    /\ UNCHANGED <<csv, exitCode, call, ret, figs, dirExists, imgdir, chartIdx, prs, todo,
                   pptxFiles>>

\* ------------------------------------------------------------- create_chart
File(stem, suffix) == [stem |-> stem, suffix |-> suffix]

\* the seven calls of main, in program order
Charts == <<
  [data |-> "type.value_counts", title |-> "Movies vs. TV Shows",
   filename |-> File(<<"content", "types">>, "png"), kind |-> "bar"],
  [data |-> "country.value_counts.nlargest", title |-> "Top 10 Countries Producing Netflix Content",
   filename |-> File(<<"top", "countries">>, "png"), kind |-> "bar"],
  [data |-> "year_added.value_counts.sort_index", title |-> "Content Added by Year",
   filename |-> File(<<"content", "by", "year">>, "png"), kind |-> "line"],
  [data |-> "genre.value_counts.nlargest", title |-> "Top 10 Genres on Netflix",
   filename |-> File(<<"top", "genres">>, "png"), kind |-> "bar"],
  [data |-> "movies.duration_min", title |-> "Distribution of Movie Durations",
   filename |-> File(<<"movie", "duration", "dist">>, "png"), kind |-> "hist"],
  [data |-> "movies", title |-> "Movie Duration vs. Release Year",
   filename |-> File(<<"duration", "vs", "year">>, "png"), kind |-> "scatter"],
  [data |-> "df", title |-> "Distribution of Content Ratings",
   filename |-> File(<<"rating", "distribution">>, "png"), kind |-> "count"] >>

ChartNames == {Charts[i].filename : i \in 1..Len(Charts)}

\* the chain with a final else that falls back to the default kind
PlotFor_DefaultBar(kind) ==
    IF kind = "line" THEN "lineplot"
    ELSE IF kind = "hist" THEN "histplot"
    ELSE IF kind = "scatter" THEN "scatterplot"
    ELSE IF kind = "count" THEN "countplot"
    ELSE "barplot"

\* the if/elif chain of create_chart: the seaborn call a kind tag selects
PlotFor(kind) ==
    IF kind = "bar" THEN "barplot"
    ELSE IF kind = "line" THEN "lineplot"
    ELSE IF kind = "hist" THEN "histplot"
    ELSE IF kind = "scatter" THEN "scatterplot"
    ELSE IF kind = "count" THEN "countplot"
    ELSE "nothing"

\* plt.figure(figsize=figsize); sns.set_style(...): a new current canvas
CcFigure ==
    /\ pc = "cc_figure"
    /\ figs' = Append(figs, [plot |-> "nothing", title |-> ""])
    /\ pc' = "cc_draw"
    /\ UNCHANGED <<csv, df, log, exitCode, call, ret, dirExists, imgdir, chartIdx, prs, todo,
                   pptxFiles>>

\* the kind dispatch, then plt.title / xlabel / xticks / tight_layout
CcDraw ==
    /\ pc = "cc_draw"
    /\ figs' = [figs EXCEPT ![Len(figs)] = [plot |-> PlotFor(call.kind), title |-> call.title]]
    /\ pc' = "cc_mkdir"
    /\ UNCHANGED <<csv, df, log, exitCode, call, ret, dirExists, imgdir, chartIdx, prs, todo,
                   pptxFiles>>

\* img_dir.mkdir(parents=True, exist_ok=True)
CcMkdir ==
    /\ pc = "cc_mkdir"
    /\ dirExists' = TRUE
    /\ pc' = "cc_savefig"
    /\ UNCHANGED <<csv, df, log, exitCode, call, ret, figs, imgdir, chartIdx, prs, todo,
                   pptxFiles>>

\* the file plt.savefig writes: the current canvas as a PNG image
Rendered(fig) == [kind |-> "image", plot |-> fig.plot, title |-> fig.title]

\* writing path n of a directory: creates the entry or replaces its content
WriteFile(dir, n, content) ==
    [m \in DOMAIN dir \cup {n} |-> IF m = n THEN content ELSE dir[m]]

\* plt.savefig(img_dir / filename); logger.info
CcSavefig ==
    /\ pc = "cc_savefig"
    /\ imgdir' = WriteFile(imgdir, call.filename, Rendered(figs[Len(figs)]))
    /\ log' = Append(log, "Saved chart")
    /\ pc' = "cc_close"
    /\ UNCHANGED <<csv, df, exitCode, call, ret, figs, dirExists, chartIdx, prs, todo,
                   pptxFiles>>

\* create_chart without plt.close()
CcClose_Leak ==
    /\ pc = "cc_close"
    /\ pc' = ret
    /\ UNCHANGED <<csv, df, log, exitCode, call, ret, figs, dirExists, imgdir, chartIdx, prs,
                   todo, pptxFiles>>

\* plt.close(): closes the current canvas; create_chart returns
CcClose ==
    /\ pc = "cc_close"
    /\ figs' = SubSeq(figs, 1, Len(figs) - 1)
    /\ pc' = ret
    /\ UNCHANGED <<csv, df, log, exitCode, call, ret, dirExists, imgdir, chartIdx, prs, todo,
                   pptxFiles>>

\* --------------------------------------------------------------- the deck
NoPicture == File(<<>>, "")
Inherited == [name |-> "", size |-> 0, color |-> <<>>]

\* Presentation(): the default template, no slide
Presentation ==
    [slides |-> <<>>,
     master |-> [background |-> <<>>, title_style |-> Inherited, body_style |-> Inherited]]

\* title and subtitle written to each other's placeholder
AddTitleSlide_Swapped(p, title, subtitle) ==
    [p EXCEPT !.slides = Append(@,
        [layout |-> 0, title |-> subtitle, subtitle |-> title, picture |-> NoPicture,
         font |-> [name |-> "", size |-> 44, color |-> DARK_BLUE]])]


AddTitleSlide(p, title, subtitle) ==
    [p EXCEPT !.slides = Append(@,
        [layout |-> 0, title |-> title, subtitle |-> subtitle, picture |-> NoPicture,
         font |-> [name |-> "", size |-> 44, color |-> DARK_BLUE]])]

\* lines 108-109: the slide is appended and titled before the picture is read
AddBareContentSlide(p, title) ==
    [p EXCEPT !.slides = Append(@,
        [layout |-> 5, title |-> title, subtitle |-> <<>>, picture |-> NoPicture,
         font |-> Inherited])]

\* a content slide that replaces the last slide instead of following it
AddContentSlide_Replace(p, title, image_path) ==
    [p EXCEPT !.slides = Append(SubSeq(@, 1, Len(@) - 1),
        [layout |-> 5, title |-> title, subtitle |-> <<>>, picture |-> image_path,
         font |-> [name |-> "", size |-> 32, color |-> DARK_BLUE]])]


AddContentSlide(p, title, image_path) ==
    [p EXCEPT !.slides = Append(@,
        [layout |-> 5, title |-> title, subtitle |-> <<>>, picture |-> image_path,
         font |-> [name |-> "", size |-> 32, color |-> DARK_BLUE]])]

\* a theme that also restyles the titles of the slides already added
CustomizeSlideMaster_Restyle(p) ==
    [slides |-> [k \in 1..Len(p.slides) |->
                    [p.slides[k] EXCEPT !.font = [name |-> "Arial", size |-> 44, color |-> DARK_BLUE]]],
     master |-> [background |-> LIGHT_BLUE,
                 title_style |-> [name |-> "Arial", size |-> 44, color |-> DARK_BLUE],
                 body_style |-> [name |-> "Arial", size |-> 18, color |-> BLACK]]]


CustomizeSlideMaster(p) ==
    [p EXCEPT !.master =
        [background |-> LIGHT_BLUE,
         title_style |-> [name |-> "Arial", size |-> 44, color |-> DARK_BLUE],
         body_style |-> [name |-> "Arial", size |-> 18, color |-> BLACK]]]

\* str.title() on one lower-case word
Capitalize(w) ==
    CASE w = "content" -> "Content" [] w = "types" -> "Types" [] w = "top" -> "Top"
      [] w = "countries" -> "Countries" [] w = "by" -> "By" [] w = "year" -> "Year"
      [] w = "genres" -> "Genres" [] w = "movie" -> "Movie" [] w = "duration" -> "Duration"
      [] w = "dist" -> "Dist" [] w = "vs" -> "Vs" [] w = "rating" -> "Rating"
      [] w = "distribution" -> "Distribution" [] w = "old" -> "Old" [] w = "photo" -> "Photo"
      [] w = "notes" -> "Notes" [] OTHER -> w

\* img_path.stem.replace('_', ' ').title(): the stem's words, each capitalised
SlideTitle(f) == [i \in 1..Len(f.stem) |-> Capitalize(f.stem[i])]

\* --------------------------------------------------------------------- main
PLAIN == "Netflix_Content_Analysis.pptx"
THEMED == "Netflix_Content_Analysis_Themed.pptx"

MainStart ==
    /\ pc = "main_start"
    /\ log' = Append(log, "Starting Netflix content analysis...")
    /\ pc' = "load_read"
    /\ UNCHANGED <<csv, df, exitCode, call, ret, figs, dirExists, imgdir, chartIdx, prs, todo,
                   pptxFiles>>

\* the chart calls stopping one short
MainChart_SkipLast ==
    /\ pc = "main_chart"
    /\ chartIdx < Len(Charts)
    /\ chartIdx' = IF chartIdx + 1 = Len(Charts) - 1 THEN Len(Charts) ELSE chartIdx + 1
    /\ call' = [fn |-> "create_chart", title |-> Charts[chartIdx + 1].title,
                filename |-> Charts[chartIdx + 1].filename, kind |-> Charts[chartIdx + 1].kind]
    /\ pc' = "cc_figure"
    /\ UNCHANGED <<csv, df, log, exitCode, ret, figs, dirExists, imgdir, prs, todo, pptxFiles>>

\* lines 153-161: the next of the seven create_chart calls
MainChart ==
    /\ pc = "main_chart"
    /\ chartIdx < Len(Charts)
    /\ chartIdx' = chartIdx + 1
    /\ call' = [fn |-> "create_chart", title |-> Charts[chartIdx + 1].title,
                filename |-> Charts[chartIdx + 1].filename, kind |-> Charts[chartIdx + 1].kind]
    /\ pc' = "cc_figure"
    /\ UNCHANGED <<csv, df, log, exitCode, ret, figs, dirExists, imgdir, prs, todo, pptxFiles>>

MainPresentation ==
    /\ pc = "main_chart"
    /\ chartIdx = Len(Charts)
    /\ prs' = Presentation
    /\ pc' = "main_title"
    /\ UNCHANGED <<csv, df, log, exitCode, call, ret, figs, dirExists, imgdir, chartIdx, todo,
                   pptxFiles>>

MainAddTitleSlide ==
    /\ pc = "main_title"
    /\ call' = [fn |-> "add_title_slide", title |-> <<"Netflix", "Content", "Analysis">>,
                subtitle |-> <<"Insights", "from", "the", "Netflix", "Movies", "and", "TV",
                               "Shows", "Dataset">>]
    /\ prs' = AddTitleSlide(prs, call'.title, call'.subtitle)
    /\ pc' = "main_iterdir"
    /\ UNCHANGED <<csv, df, log, exitCode, ret, figs, dirExists, imgdir, chartIdx, todo,
                   pptxFiles>>

\* the names a directory can hold, in name order
StaleNames == <<File(<<"notes">>, "txt"), File(<<"old">>, "png"), File(<<"photo">>, "jpg")>>

AllNames ==
    <<Charts[3].filename, Charts[1].filename, Charts[6].filename, Charts[5].filename>>
    \o StaleNames \o <<Charts[7].filename, Charts[2].filename, Charts[4].filename>>

Reverse(s) == [i \in 1..Len(s) |-> s[Len(s) + 1 - i]]
Rotate(s, k) == SubSeq(s, k + 1, Len(s)) \o SubSeq(s, 1, k)

\* Path.iterdir yields the entries in an order the filesystem chooses; the
\* orders explored are the rotations of name order and of its reverse
Orders(S) ==
    LET e == SelectSeq(AllNames, LAMBDA n : n \in S)
    IN {Rotate(e, k) : k \in 0..(Len(e) - 1)} \cup {Reverse(Rotate(e, k)) : k \in 0..(Len(e) - 1)}

MainIterdir ==
    /\ pc = "main_iterdir"
    /\ IF dirExists
       THEN /\ todo' \in Orders(DOMAIN imgdir)
            /\ pc' = "main_loop"
            /\ exitCode' = exitCode
       ELSE /\ Crash
            /\ todo' = todo
    /\ UNCHANGED <<csv, df, log, call, ret, figs, dirExists, imgdir, chartIdx, prs, pptxFiles>>

\* one iteration of the loop: add_content_slide; add_picture raises on a file
\* that is not an image, after the slide was appended and titled
MainAddContentSlide ==
    /\ pc = "main_loop"
    /\ todo # <<>>
    /\ call' = [fn |-> "add_content_slide", title |-> SlideTitle(Head(todo)),
                image_path |-> Head(todo)]
    /\ IF imgdir[Head(todo)].kind = "image"
       THEN /\ prs' = AddContentSlide(prs, call'.title, call'.image_path)
            /\ todo' = Tail(todo)
            /\ UNCHANGED <<pc, exitCode>>
       ELSE /\ prs' = AddBareContentSlide(prs, call'.title)
            /\ todo' = todo
            /\ Crash
    /\ UNCHANGED <<csv, df, log, ret, figs, dirExists, imgdir, chartIdx, pptxFiles>>

\* the master customised before the first save
MainSavePlain_AfterTheme ==
    /\ pc = "main_loop"
    /\ todo = <<>>
    /\ pptxFiles' = WriteFile(pptxFiles, PLAIN, CustomizeSlideMaster(prs))
    /\ log' = Append(log, "Presentation saved as Netflix_Content_Analysis.pptx")
    /\ pc' = "main_customize"
    /\ UNCHANGED <<csv, df, exitCode, call, ret, figs, dirExists, imgdir, chartIdx, prs, todo>>

\* prs.save: the file holds the deck as it is at the moment of the call
MainSavePlain ==
    /\ pc = "main_loop"
    /\ todo = <<>>
    /\ pptxFiles' = WriteFile(pptxFiles, PLAIN, prs)
    /\ log' = Append(log, "Presentation saved as Netflix_Content_Analysis.pptx")
    /\ pc' = "main_customize"
    /\ UNCHANGED <<csv, df, exitCode, call, ret, figs, dirExists, imgdir, chartIdx, prs, todo>>

MainCustomize ==
    /\ pc = "main_customize"
    /\ call' = [fn |-> "customize_slide_master"]
    /\ prs' = CustomizeSlideMaster(prs)
    /\ pc' = "main_save_themed"
    /\ UNCHANGED <<csv, df, log, exitCode, ret, figs, dirExists, imgdir, chartIdx, todo,
                   pptxFiles>>

MainSaveThemed ==
    /\ pc = "main_save_themed"
    /\ pptxFiles' = WriteFile(pptxFiles, THEMED, prs)
    /\ log' = Append(log, "Themed presentation saved as Netflix_Content_Analysis_Themed.pptx")
    /\ pc' = "done"
    /\ exitCode' = 0
    /\ UNCHANGED <<csv, df, call, ret, figs, dirExists, imgdir, chartIdx, prs, todo>>

\* ------------------------------------------------------------ initial states
StaleImage == [kind |-> "image", plot |-> "stale", title |-> "stale"]
StaleText == [kind |-> "other", plot |-> "nothing", title |-> ""]
StaleContent(n) == IF n.suffix = "txt" THEN StaleText ELSE StaleImage

StaleSet == {StaleNames[i] : i \in 1..Len(StaleNames)}

\* what img/slides holds when the program starts: files of any kind left by
\* the user, and the charts of an earlier run (none, the first, or all)
InitialDirs ==
    {[n \in S \cup P |-> StaleContent(n)] :
        S \in SUBSET StaleSet, P \in {{}, {Charts[1].filename}, ChartNames}}

StaleDeck == AddTitleSlide(Presentation, <<"Old">>, <<"Deck">>)

InitialDecks ==
    {[n \in S |-> StaleDeck] : S \in {{}, {PLAIN, THEMED}}}

ShowRow == [BaseRow EXCEPT !.type = "TV Show", !.duration = <<"2">>,
                           !.listed_in = <<"Dramas">>, !.date_added = "2019-01-01"]

\* the input files main is run on: none, an empty table, a sample with both
\* types and an incomplete row, and one whose duration column is numeric
SampleTables ==
    {<<>>,
     <<BaseRow, ShowRow, [BaseRow EXCEPT !.country = ""], [BaseRow EXCEPT !.duration = <<"1", "2", "m">>]>>,
     <<ShowRow>>}

InitCommon ==
    /\ df = <<>>
    /\ log = <<>>
    /\ exitCode = Running
    /\ call = NoCall
    /\ figs = <<>>
    /\ chartIdx = 0
    /\ prs = Presentation
    /\ todo = <<>>

InitFiles ==
    /\ \E d \in InitialDirs :
          /\ imgdir = d
          /\ dirExists \in (IF DOMAIN d = {} THEN BOOLEAN ELSE {TRUE})
    /\ pptxFiles \in InitialDecks

Init ==
    /\ InitCommon
    /\ InitFiles
    /\ pc = "main_start"
    /\ ret = "main_chart"
    /\ csv \in {[exists |-> FALSE, rows |-> <<>>]}
               \cup {[exists |-> TRUE, rows |-> t] : t \in SampleTables}

Next ==
    \/ MainStart
    \/ LoadRead
    \/ LoadDropna
    \/ LoadDuration
    \/ LoadGenre
    \/ LoadYear
    \/ MainChart
    \/ CcFigure
    \/ CcDraw
    \/ CcMkdir
    \/ CcSavefig
    \/ CcClose
    \/ MainPresentation
    \/ MainAddTitleSlide
    \/ MainIterdir
    \/ MainAddContentSlide
    \/ MainSavePlain
    \/ MainCustomize
    \/ MainSaveThemed

Spec == Init /\ [][Next]_vars

\* -------------------------------------- load_and_clean_data on bounded tables
InitLoad ==
    /\ InitCommon
    /\ dirExists = FALSE
    /\ imgdir = [n \in {} |-> StaleImage]
    /\ pptxFiles = [n \in {} |-> StaleDeck]
    /\ pc = "load_read"
    /\ ret = "returned"
    /\ csv \in {[exists |-> FALSE, rows |-> <<>>]}
               \cup {[exists |-> TRUE, rows |-> t] : t \in TablesUpTo(MaxRows)}

NextLoad ==
    \/ LoadRead
    \/ LoadDropna
    \/ LoadDuration
    \/ LoadGenre
    \/ LoadYear

SpecLoad == InitLoad /\ [][NextLoad]_vars

\* ----------------------------------------- create_chart on arbitrary arguments
Kinds == {"bar", "line", "hist", "scatter", "count", "histogram", "pie", "barh"}

InitChart ==
    /\ df = <<>>
    /\ log = <<>>
    /\ exitCode = Running
    /\ figs = <<>>
    /\ chartIdx = 0
    /\ prs = Presentation
    /\ todo = <<>>
    /\ InitFiles
    /\ csv = [exists |-> FALSE, rows |-> <<>>]
    /\ pc = "cc_figure"
    /\ ret = "returned"
    /\ \E k \in Kinds, f \in {Charts[1].filename, File(<<"old">>, "png")} :
          call = [fn |-> "create_chart", title |-> "Chart", filename |-> f, kind |-> k]

NextChart ==
    \/ CcFigure
    \/ CcDraw
    \/ CcMkdir
    \/ CcSavefig
    \/ CcClose

SpecChart == InitChart /\ [][NextChart]_vars

\* ------------------------------------------- the deck builders on any deck
Texts == {<<>>, <<"Netflix">>, <<"Content", "Analysis">>}

DeckAddTitleSlide ==
    /\ pc = "deck"
    /\ Len(prs.slides) < MaxSlides
    /\ \E t \in Texts, s \in Texts :
          /\ call' = [fn |-> "add_title_slide", title |-> t, subtitle |-> s]
          /\ prs' = AddTitleSlide(prs, t, s)
    /\ UNCHANGED <<pc, csv, df, log, exitCode, ret, figs, dirExists, imgdir, chartIdx, todo,
                   pptxFiles>>

DeckAddContentSlide ==
    /\ pc = "deck"
    /\ Len(prs.slides) < MaxSlides
    /\ \E f \in {n \in DOMAIN imgdir : imgdir[n].kind = "image"} :
          /\ call' = [fn |-> "add_content_slide", title |-> SlideTitle(f), image_path |-> f]
          /\ prs' = AddContentSlide(prs, SlideTitle(f), f)
    /\ UNCHANGED <<pc, csv, df, log, exitCode, ret, figs, dirExists, imgdir, chartIdx, todo,
                   pptxFiles>>

DeckCustomize ==
    /\ pc = "deck"
    /\ call' = [fn |-> "customize_slide_master"]
    /\ prs' = CustomizeSlideMaster(prs)
    /\ UNCHANGED <<pc, csv, df, log, exitCode, ret, figs, dirExists, imgdir, chartIdx, todo,
                   pptxFiles>>

InitDeck ==
    /\ InitCommon
    /\ dirExists = TRUE
    /\ imgdir = [n \in {Charts[1].filename, File(<<"photo">>, "jpg")} |-> StaleImage]
    /\ pptxFiles = [n \in {} |-> StaleDeck]
    /\ csv = [exists |-> FALSE, rows |-> <<>>]
    /\ pc = "deck"
    /\ ret = "returned"

NextDeck ==
    \/ DeckAddTitleSlide
    \/ DeckAddContentSlide
    \/ DeckCustomize

SpecDeck == InitDeck /\ [][NextDeck]_vars

\* ================================================================== claims
Default == Presentation.master
Themed == CustomizeSlideMaster(Presentation).master

InCreateChart == pc \in {"cc_figure", "cc_draw", "cc_mkdir", "cc_savefig", "cc_close"}

\* C1: when ./data/netflix_titles.csv does not exist, main goes from the load
\* straight to exit status 1: no chart call, no deck, img/slides neither
\* created nor written, no PPTX written.
C1_MissingInputExits ==
    [][~csv.exists =>
          /\ imgdir' = imgdir /\ dirExists' = dirExists /\ pptxFiles' = pptxFiles
          /\ figs' = <<>> /\ prs' = prs /\ chartIdx' = 0
          /\ pc' \in {"load_read", "exited"}
          /\ (pc = "load_read" => pc' = "exited")
          /\ (pc' = "exited" => exitCode' = 1)]_vars

C1_Witness ==
    /\ ~csv.exists /\ pc = "exited" /\ exitCode = 1
    /\ ~dirExists /\ DOMAIN pptxFiles = {}

PngEntries == {n \in DOMAIN imgdir : n.suffix = "png"}
SlidesShowing(deck, n) == {k \in 1..Len(deck.slides) : deck.slides[k].picture = n}

\* C2 as stated: when main has saved the plain deck, its slide count is
\* 1 + the number of PNG files in the chart directory.
C2_SlidesPerPng ==
    pc = "main_customize" => Len(pptxFiles[PLAIN].slides) = 1 + Cardinality(PngEntries)

\* C2 amended: when main has saved the plain deck, its slide count is 1 + the
\* number of entries of the chart directory, PNG or not: the title slide,
\* then exactly one content slide per entry enumerated.
C2_SlidesPerEntry ==
    pc = "main_customize" =>
       /\ Len(pptxFiles[PLAIN].slides) = 1 + Cardinality(DOMAIN imgdir)
       /\ pptxFiles[PLAIN].slides[1].layout = 0
       /\ \A n \in DOMAIN imgdir : Cardinality(SlidesShowing(pptxFiles[PLAIN], n)) = 1
       /\ \A k \in 2..Len(pptxFiles[PLAIN].slides) :
             pptxFiles[PLAIN].slides[k].picture \in DOMAIN imgdir

C2_Witness ==
    /\ pc = "main_customize"
    /\ File(<<"photo">>, "jpg") \in DOMAIN imgdir
    /\ Len(pptxFiles[PLAIN].slides) = 1 + Len(Charts) + 2

ExpectedCharts ==
    {File(<<"content", "types">>, "png"), File(<<"top", "countries">>, "png"),
     File(<<"content", "by", "year">>, "png"), File(<<"top", "genres">>, "png"),
     File(<<"movie", "duration", "dist">>, "png"), File(<<"duration", "vs", "year">>, "png"),
     File(<<"rating", "distribution">>, "png")}

ChartSaves == {i \in 1..Len(log) : log[i] = "Saved chart"}

\* C3: a run that loads its input and completes has written exactly seven
\* chart images, one per chart call, under the seven fixed names in
\* img/slides, and the two deck files under their two distinct names.
C3_SevenChartsTwoDecks ==
    pc = "done" =>
       /\ Cardinality(ChartSaves) = 7
       /\ Cardinality(ExpectedCharts) = 7
       /\ \A n \in ExpectedCharts :
             /\ n \in DOMAIN imgdir
             /\ imgdir[n].kind = "image"
             /\ imgdir[n].plot # "stale"
       /\ \A i, j \in 1..Len(Charts) : Charts[i].filename = Charts[j].filename => i = j
       /\ {PLAIN, THEMED} \subseteq DOMAIN pptxFiles
       /\ PLAIN # THEMED
       /\ pptxFiles[PLAIN] # StaleDeck /\ pptxFiles[THEMED] = prs

C3_Witness ==
    /\ pc = "done" /\ exitCode = 0
    /\ Len(df) > 0
    /\ Cardinality(DOMAIN imgdir) = 7

MissingFields(r) ==
    {f \in {"type", "date_added", "country"} : r[f] = ""}
    \cup {f \in {"duration", "listed_in"} : Len(r[f]) = 0}

HasMissingField(r) == MissingFields(r) # {}

Incomplete(t) == {i \in 1..Len(t) : HasMissingField(t[i])}
Derived(r) == DOMAIN r \cap {"duration_min", "genre", "year_added"}

RECURSIVE LeadingInteger(_, _)
LeadingInteger(s, acc) ==
    IF s = <<>> \/ Head(s) \notin Digits THEN acc
    ELSE LeadingInteger(Tail(s), 10 * acc + (IF Head(s) = "1" THEN 1 ELSE 2))

RECURSIVE FromFirstDigit(_)
FromFirstDigit(s) ==
    IF s = <<>> \/ Head(s) \in Digits THEN s ELSE FromFirstDigit(Tail(s))

\* C5: in the returned dataset a Movie row's duration_min is the leading
\* integer of its duration text (the first integer in it), and every row of
\* another type has no duration_min.
C5_MovieDuration ==
    pc = "returned" =>
       \A i \in 1..Len(df) :
          /\ (df[i].type = "Movie" /\ FromFirstDigit(df[i].duration) # <<>>) =>
                df[i].duration_min = LeadingInteger(FromFirstDigit(df[i].duration), 0)
          /\ (df[i].type = "Movie" /\ Len(df[i].duration) > 0 /\ df[i].duration[1] \in Digits) =>
                df[i].duration_min = LeadingInteger(df[i].duration, 0)
          /\ df[i].type # "Movie" => df[i].duration_min = NaN

C5_Witness ==
    /\ pc = "returned" /\ Len(df) = 2
    /\ df[1].type = "Movie" /\ df[1].duration = <<"2", "1">> /\ df[1].duration_min = 21
    /\ df[2].type = "TV Show" /\ df[2].duration_min = NaN

OthersUntouched ==
    \A n \in DOMAIN imgdir \ {call.filename} : n \in DOMAIN imgdir' /\ imgdir'[n] = imgdir[n]

ChartCallEffect ==
    /\ pc = "cc_mkdir" => dirExists'
    /\ pc = "cc_savefig" =>
          /\ dirExists
          /\ DOMAIN imgdir' = DOMAIN imgdir \cup {call.filename}
          /\ imgdir'[call.filename] = [kind |-> "image", plot |-> PlotFor(call.kind),
                                       title |-> call.title]
          /\ OthersUntouched
    /\ pc # "cc_savefig" => imgdir' = imgdir
    /\ Len(figs') <= 1
    /\ ~InCreateChart' => figs' = <<>>

\* C6 as stated: each create_chart call produces exactly one new file.
C6_OneNewFile ==
    [][/\ ChartCallEffect
       /\ pc = "cc_savefig" => Cardinality(DOMAIN imgdir') = Cardinality(DOMAIN imgdir) + 1]_vars

\* C6 amended: each create_chart call writes exactly one file, at
\* img/slides/<filename>, new when the path was absent and replacing the file
\* already there otherwise; it creates the directory if absent, leaves every
\* other file untouched, and no canvas is open when it returns: at most one
\* canvas is open during a call and none between the calls of main.
C6_OneFileWritten ==
    [][/\ ChartCallEffect
       /\ pc = "cc_savefig" =>
             Cardinality(DOMAIN imgdir') =
                Cardinality(DOMAIN imgdir) + (IF call.filename \in DOMAIN imgdir THEN 0 ELSE 1)]_vars

C6_Witness ==
    /\ pc = "main_chart" /\ chartIdx = 2 /\ figs = <<>>
    /\ imgdir[Charts[1].filename].plot = "barplot"
    /\ imgdir[Charts[2].filename].plot = "barplot"
    /\ File(<<"old">>, "png") \in DOMAIN imgdir

\* the stage of main a position belongs to: 1 load, 2 charts, 3 deck, 4 theme
StageOf(p, c) ==
    IF p \in {"main_start", "load_read", "load_dropna", "load_duration", "load_genre", "load_year"}
    THEN 1
    ELSE IF p \in {"cc_figure", "cc_draw", "cc_mkdir", "cc_savefig", "cc_close"}
              \/ (p = "main_chart" /\ c < Len(Charts))
    THEN 2
    ELSE IF p \in {"main_chart", "main_title", "main_iterdir", "main_loop"} THEN 3
    ELSE IF p \in {"main_customize", "main_save_themed"} THEN 4
    ELSE 5

\* C8: the stages of main are entered in order and never re-entered: the
\* seven chart writes precede the first slide, the title slide precedes the
\* content slides, the plain deck is saved before the master is changed and
\* the themed deck after, so the plain file never holds the themed master.
C8_StagesInOrder ==
    [][/\ StageOf(pc', chartIdx') >= StageOf(pc, chartIdx)
       /\ imgdir' # imgdir => StageOf(pc, chartIdx) = 2 /\ prs.slides = <<>>
       /\ df' # df => StageOf(pc, chartIdx) = 1
       /\ prs'.slides # prs.slides =>
             /\ StageOf(pc, chartIdx) = 3
             /\ Cardinality(ChartSaves) = 7
             /\ ExpectedCharts \subseteq DOMAIN imgdir
             /\ prs'.slides[1].layout = 0
             /\ \A k \in 2..Len(prs'.slides) : prs'.slides[k].layout = 5
       /\ prs'.master # prs.master =>
             /\ PLAIN \in DOMAIN pptxFiles
             /\ pptxFiles[PLAIN].slides = prs.slides
             /\ pptxFiles[PLAIN].master = Default
       /\ (THEMED \in DOMAIN pptxFiles' /\ pptxFiles' # pptxFiles /\ pc = "main_save_themed") =>
             pptxFiles'[THEMED].master = Themed
       /\ PLAIN \in DOMAIN pptxFiles' => pptxFiles'[PLAIN].master = Default]_vars

C8_Witness ==
    /\ pc = "done"
    /\ pptxFiles[PLAIN].master = Default
    /\ pptxFiles[THEMED].master = Themed
    /\ Len(pptxFiles[PLAIN].slides) >= 8

\* C7: add_title_slide on any deck, with any title and subtitle, appends
\* exactly one slide at the end, leaves the slides already there unchanged,
\* and the new slide carries the given title and the given subtitle.
C7_TitleSlideAppended ==
    [][call'.fn = "add_title_slide" =>
          /\ Len(prs'.slides) = Len(prs.slides) + 1
          /\ SubSeq(prs'.slides, 1, Len(prs.slides)) = prs.slides
          /\ prs'.slides[Len(prs'.slides)].title = call'.title
          /\ prs'.slides[Len(prs'.slides)].subtitle = call'.subtitle
          /\ prs'.slides[Len(prs'.slides)].layout = 0]_vars

C7_Witness ==
    /\ call.fn = "add_title_slide"
    /\ Len(prs.slides) = 3
    /\ prs.slides[2].layout = 5
    /\ prs.slides[3].title = <<"Netflix">> /\ prs.slides[3].subtitle = <<"Content", "Analysis">>

ChartReturned(recognised) ==
    pc = "returned" =>
       /\ exitCode = Running
       /\ call.filename \in DOMAIN imgdir
       /\ imgdir[call.filename].kind = "image"
       /\ imgdir[call.filename].title = call.title
       /\ (call.kind \notin recognised <=> imgdir[call.filename].plot = "nothing")
       /\ log = <<"Saved chart">>
       /\ figs = <<>>

\* C9 as stated: create_chart raises nothing on a kind outside the recognised
\* set, draws nothing, writes the file, logs and closes the canvas; the
\* recognised kinds are bar, line, histogram, scatter, count.
C9_SpecKinds ==
    pc # "crashed" /\ ChartReturned({"bar", "line", "histogram", "scatter", "count"})

\* C9 amended: the same, the recognised kind tags being bar, line, hist,
\* scatter and count: 'histogram' is not recognised and gives an empty chart.
C9_CodeKinds ==
    pc # "crashed" /\ ChartReturned({"bar", "line", "hist", "scatter", "count"})

C9_Witness ==
    /\ pc = "returned" /\ call.kind = "histogram"
    /\ imgdir[call.filename].plot = "nothing"
    /\ figs = <<>>

\* C10: customize_slide_master sets the master background and the two layout
\* fonts and nothing else: the slides, their order and their direct title
\* colour and size stay as they are, so the themed file main saves holds the
\* slide sequence of the plain file.
C10_OnlyMasterChanges ==
    [][/\ pc = "main_customize" =>
             /\ prs'.slides = prs.slides
             /\ prs'.master = [background |-> LIGHT_BLUE,
                               title_style |-> [name |-> "Arial", size |-> 44, color |-> DARK_BLUE],
                               body_style |-> [name |-> "Arial", size |-> 18, color |-> BLACK]]
             /\ prs.slides[1].font = [name |-> "", size |-> 44, color |-> DARK_BLUE]
             /\ \A k \in 2..Len(prs.slides) :
                   prs.slides[k].font = [name |-> "", size |-> 32, color |-> DARK_BLUE]
       /\ pc' = "done" =>
             /\ pptxFiles'[THEMED].slides = pptxFiles'[PLAIN].slides
             /\ pptxFiles'[THEMED].master # pptxFiles'[PLAIN].master]_vars

C10_Witness ==
    /\ pc = "done"
    /\ Len(pptxFiles[THEMED].slides) = 10
    /\ pptxFiles[THEMED].slides = pptxFiles[PLAIN].slides
    /\ pptxFiles[THEMED].slides[2].font.size = 32
    /\ pptxFiles[THEMED].master.background = LIGHT_BLUE

====
